---- MODULE Spec2Model ----
(***************************************************************************)
(* DynKBacklight (src/src/main.rs): the audio-to-brightness pipeline.      *)
(*                                                                         *)
(* The input-stream data callback appends each delivered batch to a        *)
(* buffer, drains it in chunks of samples_per_chunk samples and hands      *)
(* every chunk to process_audio_chunk, which updates the RmsState and      *)
(* writes a brightness level to the keyboard backlight.                    *)
(*                                                                         *)
(* Numbers.  The program computes in f32.  The model computes in fixed     *)
(* point: a real x is the integer x * SCALE, and every operation rounds    *)
(* towards zero to that grid, where f32 rounds to 24 significant bits.     *)
(* Samples are amplitudes in [-1.0, 1.0], i.e. integers in -SCALE..SCALE,  *)
(* which keeps every intermediate value inside TLC's 32-bit integers.      *)
(***************************************************************************)
EXTENDS Integers, Sequences, FiniteSets, TLC

\* One unit of the fixed-point grid is 1 / SCALE.
SCALE == 100

\* const SAMPLE_RATE: u32 = 48_000;
SAMPLE_RATE == 48000

\* const CHUNK_SIZE: Duration = Duration::from_millis(50);  (in milliseconds)
CHUNK_SIZE == 50

\* let samples_per_chunk: usize = (SAMPLE_RATE * CHUNK_SIZE.as_millis()) / 1000;
samples_per_chunk == (SAMPLE_RATE * CHUNK_SIZE) \div 1000

\* f32::MAX, the seed of min_rms (and, negated, f32::MIN, the seed of max_rms).
F32_MAX == 2000000000

(***************************************************************************)
(* Bounds of the model.                                                    *)
(***************************************************************************)
\* Batches delivered in one run of Spec.
MaxBatches == 2

\* SpecChunk stops feeding silent chunks once current_brightness has
\* decayed to -MaxDecay.
MaxDecay == 3

(***************************************************************************)
(* MovingAverage                                                           *)
(***************************************************************************)
MovingAverage_new(size) == [size |-> size, window |-> <<>>]

\* An update that evicts at the wrong end: pop_back instead of pop_front.
MovingAverage_update_pop_back(ma, data) ==
    LET pushed == Append(ma.window, data)
    IN  [ma EXCEPT !.window = IF Len(pushed) > ma.size
                              THEN SubSeq(pushed, 1, Len(pushed) - 1)
                              ELSE pushed]

MovingAverage_update(ma, data) ==
    LET pushed == Append(ma.window, data)
    IN  [ma EXCEPT !.window = IF Len(pushed) > ma.size THEN Tail(pushed) ELSE pushed]

RECURSIVE SeqSum(_)
SeqSum(s) == IF s = <<>> THEN 0 ELSE Head(s) + SeqSum(Tail(s))

\* A mean over the capacity of the window instead of its length:
\* sum / self.size as f32.
MovingAverage_value_by_size(ma) ==
    IF ma.window = <<>> THEN 0 ELSE SeqSum(ma.window) \div ma.size

MovingAverage_value(ma) ==
    IF ma.window = <<>> THEN 0 ELSE SeqSum(ma.window) \div Len(ma.window)

(***************************************************************************)
(* RmsState                                                                *)
(***************************************************************************)
RmsState_default ==
    [moving_avg |-> MovingAverage_new(10),
     max_rms |-> -F32_MAX,
     min_rms |-> F32_MAX,
     current_brightness |-> 0]

\* fn update_rms_min_max(&mut self, value: f32): called from nowhere (its
\* one call, in process_audio_chunk, is commented out).
update_rms_min_max(st, value) ==
    [st EXCEPT !.min_rms = IF value < @ THEN value ELSE @,
               !.max_rms = IF value > @ THEN value ELSE @]

\* main: let mut state = RmsState::default(); state.min_rms = 0.0; state.max_rms = 0.9;
InitialState ==
    [RmsState_default EXCEPT !.min_rms = 0, !.max_rms = (9 * SCALE) \div 10]

(***************************************************************************)
(* calc_rms                                                                *)
(***************************************************************************)
\* data.iter().map(|x| x * x).sum(), over data[lo..hi].  The sum is exact in
\* the integers, so it is split in halves to keep the recursion shallow.
RECURSIVE SumSquares(_, _, _)
SumSquares(data, lo, hi) ==
    IF lo > hi THEN 0
    ELSE IF lo = hi THEN data[lo] * data[lo]
    ELSE LET mid == (lo + hi) \div 2
         IN  SumSquares(data, lo, mid) + SumSquares(data, mid + 1, hi)

\* f32::sqrt on the grid: the largest r with r * r <= m.
Sqrt(m) == CHOOSE r \in 0..m : r * r <= m /\ (r + 1) * (r + 1) > m

\* The squares are in units of 1 / SCALE^2, so their mean's root is in
\* units of 1 / SCALE.  An empty chunk divides by zero.  (A one-element set
\* binds a value that is used more than once, so that TLC computes it once.)
calc_rms(data) ==
    CHOOSE rms \in {Sqrt(SumSquares(d, 1, Len(d)) \div Len(d)) : d \in {data}} : TRUE

(***************************************************************************)
(* set_brightness                                                          *)
(***************************************************************************)
\* A cast that wraps modulo 256 instead of saturating.
AsU8_wrapping(level) == (level \div SCALE) % 256

\* `level as u8`: truncates towards zero and saturates at 0 and 255.
AsU8(level) ==
    IF level < 0 THEN 0
    ELSE IF level \div SCALE > 255 THEN 255
    ELSE level \div SCALE

\* The value written to the brightness file and whether open and write_all
\* succeeded (sink_ok is the environment's answer).
set_brightness(level, sink_ok) == [level |-> AsU8(level), ok |-> sink_ok]

(***************************************************************************)
(* process_audio_chunk                                                     *)
(***************************************************************************)
P5(r) == r * r * r * r * r

\* normalized_rms.powf(1.6), for normalized_rms >= 0 (the caller's min_rms
\* is 0.0).  x^1.6 = x * x^0.6, and x^0.6 is the fifth root of x^3, taken in
\* tenths from the integer part of x.  18^1.6 > 100 and the caller clamps to
\* 100, so from 18 on x^0.6 is kept at its lower bound 5.6 = 18^0.6.
powf_boost(x) ==
    LET q == x \div SCALE
        n == q * q * q * 100000
        r == IF q >= 18 THEN 56
             ELSE CHOOSE t \in 0..56 : P5(t) <= n /\ P5(t + 1) > n
    IN  (x * r) \div 10

clamp(x, lo, hi) == IF x < lo THEN lo ELSE IF x > hi THEN hi ELSE x

\* The threshold of the line commented out in the source:
\* (state.moving_avg.value() * 1.5).max(1.0)
Threshold_floored(ma) ==
    LET t == (MovingAverage_value(ma) * 15) \div 10
    IN  IF t < SCALE THEN SCALE ELSE t

\* let threshold = state.moving_avg.value() * 1.4;
Threshold(ma) == (MovingAverage_value(ma) * 14) \div 10

\* A degenerate range read as full scale: else { 100.0 }.
Normalized_full_scale(rms, min_rms, max_rms) ==
    IF max_rms > min_rms
    THEN (((rms - min_rms) * SCALE) \div (max_rms - min_rms)) * 100
    ELSE 100 * SCALE

\* let normalized_rms = if state.max_rms > state.min_rms
\*     { ((rms - state.min_rms) / (state.max_rms - state.min_rms)) * 100.0 }
\*     else { 0.0 };
Normalized(rms, min_rms, max_rms) ==
    IF max_rms > min_rms
    THEN (((rms - min_rms) * SCALE) \div (max_rms - min_rms)) * 100
    ELSE 0

\* A comparison that also triggers on equality: rms >= threshold.
Triggers_on_equal(rms, threshold) == rms >= threshold

\* rms > threshold
Triggers(rms, threshold) == rms > threshold

\* state.current_brightness -= 1.0;
Decay(current_brightness) == current_brightness - SCALE

\* A decay that only updates the state and writes nothing.
Branch_silent_decay(active, brightness, current_brightness, sink_ok) ==
    IF active
    THEN [current_brightness |-> brightness,
          writes |-> <<set_brightness(brightness, sink_ok)>>]
    ELSE [current_brightness |-> Decay(current_brightness),
          writes |-> <<>>]

\* A write that is tried a second time when it fails.
Branch_retry(active, brightness, current_brightness, sink_ok) ==
    LET new == IF active THEN brightness ELSE Decay(current_brightness)
        write == set_brightness(new, sink_ok)
    IN  [current_brightness |-> new,
         writes |-> IF sink_ok THEN <<write>> ELSE <<write, write>>]

\* if rms > threshold { .. set_brightness(brightness) } else { .. -= 1.0;
\* set_brightness(state.current_brightness) }: the new current_brightness
\* and the writes attempted, in order.
Branch(active, brightness, current_brightness, sink_ok) ==
    IF active
    THEN [current_brightness |-> brightness,
          writes |-> <<set_brightness(brightness, sink_ok)>>]
    ELSE [current_brightness |-> Decay(current_brightness),
          writes |-> <<set_brightness(Decay(current_brightness), sink_ok)>>]

\* A call that takes the threshold from the window before rms is pushed.
process_audio_chunk_threshold_first(chunk, st, sink_ok) ==
    CHOOSE result \in
      { LET avg == MovingAverage_update(st.moving_avg, rms)
            threshold == Threshold(st.moving_avg)
            normalized_rms == Normalized(rms, st.min_rms, st.max_rms)
            boosted == powf_boost(normalized_rms)
            brightness == clamp(boosted, 0, 100 * SCALE)
            active == Triggers(rms, threshold)
            br == Branch(active, brightness, st.current_brightness, sink_ok)
        IN  [state |-> [st EXCEPT !.moving_avg = avg,
                                  !.current_brightness = br.current_brightness],
             rms |-> rms,
             branch |-> IF active THEN "Active" ELSE "Decaying",
             attempts |-> [i \in DOMAIN br.writes |->
                             [rms |-> rms,
                              threshold |-> threshold,
                              normalized_rms |-> normalized_rms,
                              brightness |-> brightness,
                              branch |-> IF active THEN "Active" ELSE "Decaying",
                              level |-> br.writes[i].level,
                              ok |-> br.writes[i].ok]],
             panicked |-> \E i \in DOMAIN br.writes : ~br.writes[i].ok]
        : rms \in {calc_rms(chunk)} } : TRUE

\* A call with the range tracking switched on:
\* state.update_rms_min_max(rms); before state.moving_avg.update(rms).
process_audio_chunk_tracking(chunk, st, sink_ok) ==
    CHOOSE result \in
      { LET tracked == update_rms_min_max(st, rms)
            avg == MovingAverage_update(tracked.moving_avg, rms)
            threshold == Threshold(avg)
            normalized_rms == Normalized(rms, tracked.min_rms, tracked.max_rms)
            boosted == powf_boost(normalized_rms)
            brightness == clamp(boosted, 0, 100 * SCALE)
            active == Triggers(rms, threshold)
            br == Branch(active, brightness, tracked.current_brightness, sink_ok)
        IN  [state |-> [tracked EXCEPT !.moving_avg = avg,
                                  !.current_brightness = br.current_brightness],
             rms |-> rms,
             branch |-> IF active THEN "Active" ELSE "Decaying",
             attempts |-> [i \in DOMAIN br.writes |->
                             [rms |-> rms,
                              threshold |-> threshold,
                              normalized_rms |-> normalized_rms,
                              brightness |-> brightness,
                              branch |-> IF active THEN "Active" ELSE "Decaying",
                              level |-> br.writes[i].level,
                              ok |-> br.writes[i].ok]],
             panicked |-> \E i \in DOMAIN br.writes : ~br.writes[i].ok]
        : rms \in {calc_rms(chunk)} } : TRUE

\* One call.  The result is the state left behind, the writes attempted
\* (each with the rms, threshold, normalized_rms and brightness of the call
\* and the branch it came from) and whether a set_brightness(..).unwrap()
\* panicked.
process_audio_chunk(chunk, st, sink_ok) ==
    CHOOSE result \in
      { LET avg == MovingAverage_update(st.moving_avg, rms)
            threshold == Threshold(avg)
            normalized_rms == Normalized(rms, st.min_rms, st.max_rms)
            boosted == powf_boost(normalized_rms)
            brightness == clamp(boosted, 0, 100 * SCALE)
            active == Triggers(rms, threshold)
            br == Branch(active, brightness, st.current_brightness, sink_ok)
        IN  [state |-> [st EXCEPT !.moving_avg = avg,
                                  !.current_brightness = br.current_brightness],
             rms |-> rms,
             branch |-> IF active THEN "Active" ELSE "Decaying",
             attempts |-> [i \in DOMAIN br.writes |->
                             [rms |-> rms,
                              threshold |-> threshold,
                              normalized_rms |-> normalized_rms,
                              brightness |-> brightness,
                              branch |-> IF active THEN "Active" ELSE "Decaying",
                              level |-> br.writes[i].level,
                              ok |-> br.writes[i].ok]],
             panicked |-> \E i \in DOMAIN br.writes : ~br.writes[i].ok]
        : rms \in {calc_rms(chunk)} } : TRUE

(***************************************************************************)
(* State                                                                   *)
(***************************************************************************)
VARIABLES
    buffer,     \* let mut buffer = Vec::new(): the samples not yet chunked
    state,      \* the RmsState the callback owns
    panicked,   \* an unwrap() panicked inside the callback: it never runs again
    chunks,     \* the chunks the last step handed to process_audio_chunk
    attempts,   \* the writes to the backlight the last step attempted, in order
    sinceSnap,  \* silent chunks processed since current_brightness was set to 100 (-1: n/a)
    fed,        \* the last size + 1 values given to MovingAverage::update, oldest first
    delivered,  \* history of the data callback: all samples delivered, in order
    emitted,    \* history of the data callback: all chunks it drained, concatenated
    nbatches,   \* history of the data callback: batches delivered
    nchunks,    \* history of the data callback: chunks handed to process_audio_chunk
    nwrites,    \* history of the data callback: writes attempted
    log,        \* history of the data callback: all writes attempted, in order
    pc          \* where the data callback is: "idle" (not running) or "loop"

vars == <<buffer, state, panicked, chunks, attempts, sinceSnap, fed,
          delivered, emitted, nbatches, nchunks, nwrites, log, pc>>

Init ==
    /\ buffer = <<>>
    /\ state = InitialState
    /\ panicked = FALSE
    /\ chunks = <<>>
    /\ attempts = <<>>
    /\ sinceSnap = -1
    /\ fed = <<>>
    /\ delivered = <<>>
    /\ emitted = <<>>
    /\ nbatches = 0
    /\ nchunks = 0
    /\ nwrites = 0
    /\ log = <<>>
    /\ pc = "idle"

\* Bookkeeping for sinceSnap after one call of process_audio_chunk.
SnapCount(n, r) ==
    IF r.branch = "Active" /\ r.state.current_brightness = 100 * SCALE THEN 0
    ELSE IF n >= 0 /\ r.rms = 0 THEN n + 1
    ELSE -1

\* Bookkeeping for fed after MovingAverage::update(value).
Fed(f, size, value) ==
    IF Len(f) > size THEN Append(Tail(f), value) ELSE Append(f, value)

(***************************************************************************)
(* The input stream's data callback                                        *)
(***************************************************************************)
\* A loop that stops one sample early: buffer.len() > samples_per_chunk.
LoopCond_strict(buf) == Len(buf) > samples_per_chunk

\* while buffer.len() >= samples_per_chunk
LoopCond(buf) == Len(buf) >= samples_per_chunk

\* A chunk copied out of the buffer and not removed from it:
\* buffer[..samples_per_chunk].to_vec()
Drain_copy(buf) ==
    [chunk |-> SubSeq(buf, 1, samples_per_chunk),
     rest |-> buf]

\* buffer.drain(..samples_per_chunk).collect(): the chunk and what is left.
Drain(buf) ==
    [chunk |-> SubSeq(buf, 1, samples_per_chunk),
     rest |-> SubSeq(buf, samples_per_chunk + 1, Len(buf))]

\* The while loop, from the loop state c.  The write of the failAt-th chunk
\* of this call fails (0: none does); the panic of its unwrap() unwinds out
\* of the loop with the chunk drained and the state updated.
RECURSIVE DrainLoop(_, _)
DrainLoop(c, failAt) ==
    IF c.panicked \/ ~LoopCond(c.buffer) THEN c
    ELSE CHOOSE end \in
           { DrainLoop([buffer |-> d.rest,
                        state |-> r.state,
                        chunks |-> Append(c.chunks, d.chunk),
                        attempts |-> c.attempts \o r.attempts,
                        panicked |-> r.panicked,
                        sinceSnap |-> SnapCount(c.sinceSnap, r),
                        fed |-> Fed(c.fed, c.state.moving_avg.size, r.rms)],
                       failAt)
             : <<d, r>> \in
                 { <<dd, process_audio_chunk(dd.chunk, c.state, Len(c.chunks) + 1 # failAt)>>
                   : dd \in {Drain(c.buffer)} } } : TRUE

RECURSIVE Concat(_)
Concat(ss) == IF ss = <<>> THEN <<>> ELSE Head(ss) \o Concat(Tail(ss))

\* A callback whose buffer is a local of the closure body, empty at each call:
\* let mut buffer = Vec::new(); buffer.extend_from_slice(data); while ...
Callback_local_buffer(data, failAt) ==
    /\ ~panicked
    /\ nbatches < MaxBatches
    /\ \E c \in {DrainLoop([buffer |-> data,
                           state |-> state,
                           chunks |-> <<>>,
                           attempts |-> <<>>,
                           panicked |-> FALSE,
                           sinceSnap |-> sinceSnap,
                           fed |-> fed],
                          failAt)} :
           /\ buffer' = c.buffer
           /\ state' = c.state
           /\ chunks' = c.chunks
           /\ attempts' = c.attempts
           /\ panicked' = c.panicked
           /\ sinceSnap' = c.sinceSnap
           /\ fed' = c.fed
           /\ delivered' = delivered \o data
           /\ emitted' = emitted \o Concat(c.chunks)
           /\ nbatches' = nbatches + 1
           /\ nchunks' = nchunks + Len(c.chunks)
           /\ nwrites' = nwrites + Len(c.attempts)
           /\ log' = log \o c.attempts
    /\ UNCHANGED pc

\* move |data: &[f32], _| { buffer.extend_from_slice(data); while ... }
Callback(data, failAt) ==
    /\ ~panicked
    /\ nbatches < MaxBatches
    /\ \E c \in {DrainLoop([buffer |-> buffer \o data,
                           state |-> state,
                           chunks |-> <<>>,
                           attempts |-> <<>>,
                           panicked |-> FALSE,
                           sinceSnap |-> sinceSnap,
                           fed |-> fed],
                          failAt)} :
           /\ buffer' = c.buffer
           /\ state' = c.state
           /\ chunks' = c.chunks
           /\ attempts' = c.attempts
           /\ panicked' = c.panicked
           /\ sinceSnap' = c.sinceSnap
           /\ fed' = c.fed
           /\ delivered' = delivered \o data
           /\ emitted' = emitted \o Concat(c.chunks)
           /\ nbatches' = nbatches + 1
           /\ nchunks' = nchunks + Len(c.chunks)
           /\ nwrites' = nwrites + Len(c.attempts)
           /\ log' = log \o c.attempts
    /\ UNCHANGED pc

\* The batches the audio source delivers: empty, half a chunk, one chunk,
\* one chunk and a half, each of one amplitude (0.0, 0.1 or -1.0).
BatchLens ==
    {0, samples_per_chunk \div 2, samples_per_chunk, (3 * samples_per_chunk) \div 2}

SampleVals == {0, SCALE \div 10, -SCALE}

Batches == {[i \in 1..n |-> v] : n \in BatchLens, v \in SampleVals}

\* Which write of a call the environment fails: none, or one of the writes
\* the delivered samples lead to.
FailChoices(data) == 0..((Len(buffer) + Len(data)) \div samples_per_chunk)

Next == \E data \in Batches : \E failAt \in FailChoices(data) : Callback(data, failAt)

Spec == Init /\ [][Next]_vars

(***************************************************************************)
(* process_audio_chunk on its own, chunk by chunk                          *)
(***************************************************************************)
SilentChunk == [i \in 1..samples_per_chunk |-> 0]

LoudChunk == [i \in 1..samples_per_chunk |-> SCALE]

\* One call of process_audio_chunk outside the data callback, whose history
\* (delivered, emitted, nbatches, nchunks, nwrites, log) and buffer it leaves
\* alone.
ProcessChunk(chunk, sink_ok) ==
    /\ ~panicked
    /\ \E r \in {process_audio_chunk(chunk, state, sink_ok)} :
           /\ state' = r.state
           /\ chunks' = <<chunk>>
           /\ attempts' = r.attempts
           /\ panicked' = r.panicked
           /\ sinceSnap' = SnapCount(sinceSnap, r)
           /\ fed' = Fed(fed, state.moving_avg.size, r.rms)
    /\ UNCHANGED <<buffer, delivered, emitted, nbatches, nchunks, nwrites, log, pc>>

\* A silent chunk, while current_brightness is above -MaxDecay.
Silence(sink_ok) ==
    /\ state.current_brightness > -(MaxDecay * SCALE)
    /\ \E chunk \in {SilentChunk} : ProcessChunk(chunk, sink_ok)

\* A chunk of rms 1.0 on a window that holds no sound: an isolated spike.
Spike(sink_ok) ==
    /\ \A i \in DOMAIN state.moving_avg.window : state.moving_avg.window[i] = 0
    /\ \E chunk \in {LoudChunk} : ProcessChunk(chunk, sink_ok)

NextChunk == \E sink_ok \in BOOLEAN : Silence(sink_ok) \/ Spike(sink_ok)

SpecChunk == Init /\ [][NextChunk]_vars

(***************************************************************************)
(* MovingAverage on its own, value by value                                *)
(***************************************************************************)
\* The loudness values fed: 0.0, 0.01 and 1.0.
LoudnessVals == {0, 1, SCALE}

\* state.moving_avg.update(value)
Update(value) ==
    /\ state' = [state EXCEPT !.moving_avg = MovingAverage_update(@, value)]
    /\ fed' = Fed(fed, state.moving_avg.size, value)
    /\ UNCHANGED <<buffer, panicked, chunks, attempts, sinceSnap,
                   delivered, emitted, nbatches, nchunks, nwrites, log, pc>>

NextAvg == \E value \in LoudnessVals : Update(value)

SpecAvg == Init /\ [][NextAvg]_vars

(***************************************************************************)
(* process_audio_chunk as a function of the RmsState it is given: a few    *)
(* calls on chunks of three loudnesses, from the state main builds         *)
(* (SpecStep) and from states whose range is degenerate (SpecRange)        *)
(***************************************************************************)
MaxSteps == 4

\* A chunk of rms 0.1.
QuietChunk == [i \in 1..samples_per_chunk |-> 10]

StepChunks == {SilentChunk, QuietChunk, LoudChunk}

\* process_audio_chunk(&chunk, &mut state), at most MaxSteps times.
Step(chunk, sink_ok) ==
    /\ Len(fed) < MaxSteps
    /\ ProcessChunk(chunk, sink_ok)

NextStep == \E chunk \in StepChunks : \E sink_ok \in BOOLEAN : Step(chunk, sink_ok)

SpecStep == Init /\ [][NextStep]_vars

\* The ranges an RmsState can hold when max_rms == min_rms (0.0 and 0.5
\* here), next to the range main sets.
Ranges == { [min_rms |-> 0, max_rms |-> 0],
            [min_rms |-> SCALE \div 2, max_rms |-> SCALE \div 2],
            [min_rms |-> InitialState.min_rms, max_rms |-> InitialState.max_rms] }

InitRange ==
    /\ \E range \in Ranges :
           state = [InitialState EXCEPT !.min_rms = range.min_rms,
                                        !.max_rms = range.max_rms]
    /\ buffer = <<>>
    /\ panicked = FALSE
    /\ chunks = <<>>
    /\ attempts = <<>>
    /\ sinceSnap = -1
    /\ fed = <<>>
    /\ delivered = <<>>
    /\ emitted = <<>>
    /\ nbatches = 0
    /\ nchunks = 0
    /\ nwrites = 0
    /\ log = <<>>
    /\ pc = "idle"

SpecRange == InitRange /\ [][NextStep]_vars

(***************************************************************************)
(* calc_rms on chunks of every length from 1 to MaxLen, as the first call  *)
(* of process_audio_chunk.  The samples are 0.0, the smallest magnitude    *)
(* the grid holds (for f32: a value whose square underflows), 0.1 and 1.0. *)
(***************************************************************************)
MaxLen == 3

RmsSampleVals == {0, 1, -1, 10, -SCALE}

ShortChunks == UNION { [1..len -> RmsSampleVals] : len \in 1..MaxLen }

\* let rms = calc_rms(chunk), in the first call of process_audio_chunk.
Measure(chunk) ==
    /\ fed = <<>>
    /\ ProcessChunk(chunk, TRUE)

NextRms == \E chunk \in ShortChunks : Measure(chunk)

SpecRms == Init /\ [][NextRms]_vars

(***************************************************************************)
(* process_audio_chunk on a stream of constant loudness: every chunk has   *)
(* the rms of the first one (the same samples, or the same samples         *)
(* negated), for up to MaxConst chunks                                     *)
(***************************************************************************)
MaxConst == 11

\* The constant levels: 0.0 (silence), 0.01, 0.1 and 1.0.
ConstLevels == {0, 1, 10, -10, SCALE, -SCALE}

ConstChunk(v) == [i \in 1..samples_per_chunk |-> v]

\* The next chunk of the stream, as loud as the chunk before it.
Sustain(v, sink_ok) ==
    /\ state.current_brightness > -(MaxConst * SCALE)
    /\ \E chunk \in {ConstChunk(v)} :
           /\ chunks # <<>> => chunks[1] \in {chunk, ConstChunk(-v)}
           /\ ProcessChunk(chunk, sink_ok)

NextConst == \E v \in ConstLevels : \E sink_ok \in BOOLEAN : Sustain(v, sink_ok)

SpecConst == Init /\ [][NextConst]_vars

(***************************************************************************)
(* The data callback one loop iteration at a time, every write to the      *)
(* backlight succeeding.  pc is "loop" from the call until the while       *)
(* condition is found false.                                               *)
(***************************************************************************)
\* move |data: &[f32], _| { buffer.extend_from_slice(data);
Deliver(data) ==
    /\ pc = "idle"
    /\ nbatches < MaxBatches
    /\ buffer' = buffer \o data
    /\ chunks' = <<>>
    /\ attempts' = <<>>
    /\ delivered' = delivered \o data
    /\ nbatches' = nbatches + 1
    /\ pc' = "loop"
    /\ UNCHANGED <<state, panicked, sinceSnap, fed, emitted, nchunks, nwrites, log>>

\* One iteration: the condition holds, a chunk is drained and processed.
Iterate ==
    /\ pc = "loop"
    /\ LoopCond(buffer)
    /\ \E d \in {Drain(buffer)} :
         \E r \in {process_audio_chunk(d.chunk, state, TRUE)} :
           /\ buffer' = d.rest
           /\ state' = r.state
           /\ chunks' = Append(chunks, d.chunk)
           /\ attempts' = attempts \o r.attempts
           /\ panicked' = r.panicked
           /\ sinceSnap' = SnapCount(sinceSnap, r)
           /\ fed' = Fed(fed, state.moving_avg.size, r.rms)
           /\ emitted' = emitted \o d.chunk
           /\ nchunks' = nchunks + 1
           /\ nwrites' = nwrites + Len(r.attempts)
           /\ log' = log \o r.attempts
    /\ UNCHANGED <<delivered, nbatches, pc>>

\* The condition is false: the callback returns.
Return ==
    /\ pc = "loop"
    /\ ~LoopCond(buffer)
    /\ pc' = "idle"
    /\ UNCHANGED <<buffer, state, panicked, chunks, attempts, sinceSnap, fed,
                   delivered, emitted, nbatches, nchunks, nwrites, log>>

NextLoop == (\E data \in Batches : Deliver(data)) \/ Iterate \/ Return

\* What an iteration does to the buffer.  Within NextLoop the steps that
\* satisfy it are the Iterate steps, and it is enabled when Iterate is.
Drains ==
    /\ pc = "loop"
    /\ LoopCond(buffer)
    /\ buffer' = Drain(buffer).rest

\* The thread that runs the callback keeps running it: a call that can
\* take its next step (an iteration, or the return) takes it.
SpecLoop == Init /\ [][NextLoop]_vars /\ WF_buffer(Drains) /\ WF_vars(Return)

(***************************************************************************)
(* Properties                                                              *)
(***************************************************************************)

\* C1: every level handed to the backlight (the integer set_brightness
\* writes) is in [0, 100], whether the chunk took the Active or the
\* Decaying branch.
C1_LevelInRange ==
    \A i \in DOMAIN attempts : attempts[i].level \in 0..100

\* A Decaying chunk has taken current_brightness below 0 and 0 was written.
C1_Witness ==
    \E i \in DOMAIN attempts :
        /\ attempts[i].branch = "Decaying"
        /\ state.current_brightness < 0
        /\ attempts[i].level = 0

\* C2: the stored current_brightness is within [0, 100] in every state.
C2_BrightnessInRange ==
    state.current_brightness \in 0..(100 * SCALE)

\* C3: a failed write is not fatal: when a write of a call has failed, the
\* callback still runs (nothing panicked) and has processed every complete
\* chunk it held.
C3_WriteFailureNotFatal ==
    (\E i \in DOMAIN attempts : ~attempts[i].ok)
        => (~panicked /\ Len(buffer) < samples_per_chunk)

\* C4: every chunk handed to process_audio_chunk has exactly
\* samples_per_chunk = 2400 samples, and when the callback has returned
\* the buffer holds fewer than samples_per_chunk samples.
C4_ChunkSize ==
    /\ samples_per_chunk = 2400
    /\ \A i \in DOMAIN chunks : Len(chunks[i]) = samples_per_chunk
    /\ ~panicked => Len(buffer) < samples_per_chunk

\* The callback has returned having emitted a chunk and kept a remainder.
C4_Witness ==
    /\ ~panicked
    /\ chunks # <<>>
    /\ buffer # <<>>

\* C5: the chunks emitted so far followed by the buffer are the samples
\* delivered so far, and a batch of n samples arriving on r buffered ones
\* emits floor((r + n) / samples_per_chunk) chunks and leaves
\* (r + n) mod samples_per_chunk samples, so that after any batches the
\* callback has emitted floor(total / samples_per_chunk) chunks and holds
\* total mod samples_per_chunk samples.
C5_ChunkerExact ==
    /\ emitted \o buffer = delivered
    /\ nchunks = Len(delivered) \div samples_per_chunk
    /\ Len(buffer) = Len(delivered) % samples_per_chunk

\* C5 does hold of every call that returns: it fails only when a write
\* fails and the panic leaves complete chunks in the buffer (see C3).
C5_WhileNoPanic == ~panicked => C5_ChunkerExact

\* C6: after process_audio_chunk has run, min_rms <= the rms of every
\* chunk processed <= max_rms.
C6_RmsWithinRange ==
    \A i \in DOMAIN attempts :
        state.min_rms <= attempts[i].rms /\ attempts[i].rms <= state.max_rms

\* C7: a chunk of rms 1.0 that follows one or more all-zero chunks (the
\* window holds zeros and then this rms) takes the Active branch, sets
\* current_brightness to 100 and hands level 100 to the backlight.
C7_SpikeSnaps ==
    LET w == state.moving_avg.window
    IN  (/\ Len(w) >= 2
         /\ w[Len(w)] = SCALE
         /\ \A i \in 1..(Len(w) - 1) : w[i] = 0)
        => /\ state.current_brightness = 100 * SCALE
           /\ Len(attempts) = 1
           /\ attempts[1].rms = SCALE
           /\ attempts[1].branch = "Active"
           /\ attempts[1].level = 100

\* Three all-zero chunks from the initial state, then the chunk of rms 1.0.
C7_Witness ==
    /\ state.moving_avg.window = <<0, 0, 0, SCALE>>
    /\ state.current_brightness = 100 * SCALE
    /\ attempts[1].branch = "Active"
    /\ attempts[1].level = 100
    /\ attempts[1].ok

\* C8: the n-th silent chunk after current_brightness was set to 100 takes
\* the Decaying branch and hands 100 - n to the backlight, and 0 once that
\* has reached 0.
C8_DecayByOne ==
    sinceSnap >= 1
        => /\ Len(attempts) = 1
           /\ attempts[1].rms = 0
           /\ attempts[1].branch = "Decaying"
           /\ attempts[1].level = (IF sinceSnap <= 100 THEN 100 - sinceSnap ELSE 0)

\* The 101st silent chunk after the snap: 0 is written again, from a
\* current_brightness of -1.0.
C8_Witness ==
    /\ sinceSnap = 101
    /\ state.current_brightness = -SCALE
    /\ attempts[1].level = 0
    /\ attempts[1].ok

\* C9: the window never holds more than size = 10 values, it holds the
\* most recent min(n, 10) values fed, oldest first, and value() is their
\* arithmetic mean (rounded to the grid), or 0 when nothing was fed.
C9_RollingWindow ==
    LET ma == state.moving_avg
        n == Len(fed)
        k == IF n < 10 THEN n ELSE 10
        last == SubSeq(fed, n - k + 1, n)
        v == MovingAverage_value(ma)
    IN  /\ ma.size = 10
        /\ Len(ma.window) <= 10
        /\ ma.window = last
        /\ IF n = 0 THEN v = 0
           ELSE v * k <= SeqSum(last) /\ SeqSum(last) < (v + 1) * k

\* More than 10 values were fed: the oldest, 1.0, is evicted and the window
\* holds one 0.01 among zeros, so that value() rounds to 0.
C9_Witness ==
    /\ Len(fed) = 11
    /\ fed[1] = SCALE
    /\ Len(state.moving_avg.window) = 10
    /\ SeqSum(state.moving_avg.window) = 1
    /\ MovingAverage_value(state.moving_avg) = 0

\* C10: every chunk handed to process_audio_chunk leads to exactly one
\* write, on either branch: the writes of a call are as many as its chunks,
\* the i-th write is the one of the i-th chunk, and over the run there are
\* as many writes as chunks drained.
C10_OneWritePerChunk ==
    /\ Len(attempts) = Len(chunks)
    /\ \A i \in DOMAIN attempts : attempts[i].rms = calc_rms(chunks[i])
    /\ nwrites = nchunks
    /\ Len(emitted) = nchunks * samples_per_chunk

\* One call that drained two chunks of different loudness and wrote twice.
C10_Witness ==
    /\ ~panicked
    /\ Len(chunks) = 2
    /\ Len(attempts) = 2
    /\ attempts[1].rms # attempts[2].rms
    /\ attempts[1].ok /\ attempts[2].ok

\* C11: whenever max_rms == min_rms when a chunk is processed, its
\* normalized loudness is exactly 0, so its candidate brightness is 0, and
\* the chunk is processed to its one write: nothing but a failed write
\* makes the call fail.
C11_DegenerateRange ==
    state.max_rms = state.min_rms /\ chunks # <<>> =>
        /\ Len(attempts) = 1
        /\ attempts[1].normalized_rms = 0
        /\ attempts[1].brightness = 0
        /\ panicked <=> ~attempts[1].ok

\* A chunk louder than the degenerate range (rms 1.0 over min_rms =
\* max_rms = 0.5) has been processed, and its write succeeded.
C11_Witness ==
    /\ state.max_rms = state.min_rms
    /\ Len(attempts) = 1
    /\ attempts[1].rms > state.min_rms
    /\ state.min_rms > 0
    /\ attempts[1].ok
    /\ ~panicked

\* C12: for every chunk of length L >= 1, calc_rms(chunk) >= 0, and it is 0
\* if and only if every sample of the chunk is 0.
C12_RmsZeroIffSilent ==
    \A i \in DOMAIN attempts :
        /\ attempts[i].rms >= 0
        /\ attempts[i].rms = 0 <=> \A k \in DOMAIN chunks[1] : chunks[1][k] = 0

\* C13: in one call of process_audio_chunk the rms of the chunk is pushed
\* into the window before the threshold is computed; the chunk is Active
\* exactly when rms > 1.4 x the mean of the window that already holds this
\* rms; an Active chunk sets current_brightness to the candidate (the
\* boosted value clamped to [0, 100]) whatever it was before, and any
\* other chunk sets it to the previous value minus exactly 1.
C13_Transition ==
    [][ LET a == attempts'[1]
            w == state'.moving_avg.window
        IN  /\ Len(attempts') = 1
            /\ w[Len(w)] = a.rms
            /\ a.threshold = (MovingAverage_value(state'.moving_avg) * 14) \div 10
            /\ a.branch = "Active" <=> a.rms > a.threshold
            /\ a.brightness = clamp(powf_boost(a.normalized_rms), 0, 100 * SCALE)
            /\ a.branch = "Active" =>
                   state'.current_brightness = a.brightness
            /\ a.branch # "Active" =>
                   state'.current_brightness = state.current_brightness - SCALE
      ]_vars

\* A chunk of rms 0.1 after silence has been Active: current_brightness,
\* negative before, is the candidate, strictly between 0 and 100.
C13_Witness ==
    /\ Len(fed) >= 2
    /\ fed[Len(fed) - 1] = 0
    /\ Len(attempts) = 1
    /\ attempts[1].branch = "Active"
    /\ attempts[1].rms > attempts[1].threshold
    /\ attempts[1].brightness > 0
    /\ attempts[1].brightness < 100 * SCALE
    /\ state.current_brightness = attempts[1].brightness

\* C14: when the write to the backlight fails for a chunk, exactly one
\* write was attempted for it (no retry) and nothing the call changed is
\* rolled back: the window holds the rms of the chunk as its newest value
\* and current_brightness is the value decided for the chunk (the
\* candidate if Active, the previous value minus 1 otherwise).
C14_FailedWrite ==
    [][ panicked' /\ ~panicked =>
          LET a == attempts'[1]
              w == state'.moving_avg.window
          IN  /\ Len(attempts') = 1
              /\ ~a.ok
              /\ w = MovingAverage_update(state.moving_avg, a.rms).window
              /\ w[Len(w)] = a.rms
              /\ state'.current_brightness =
                     IF a.branch = "Active" THEN a.brightness
                     ELSE state.current_brightness - SCALE
      ]_vars

\* The write of an Active chunk has failed: the window ends with the rms
\* of the chunk and current_brightness is its candidate, above 0.
C14_Witness ==
    /\ panicked
    /\ Len(attempts) = 1
    /\ ~attempts[1].ok
    /\ attempts[1].branch = "Active"
    /\ state.moving_avg.window[Len(state.moving_avg.window)] = attempts[1].rms
    /\ state.current_brightness = attempts[1].brightness
    /\ state.current_brightness > 0

\* C15: on a stream whose chunks all have the same rms c >= 0 (silence
\* included), from the initial state, no chunk is Active, the first one
\* included, so every level written is 0: the level is 0 and stays 0.
C15_ConstantNeverTriggers ==
    \A i \in DOMAIN attempts :
        /\ attempts[i].branch = "Decaying"
        /\ attempts[i].rms <= attempts[i].threshold
        /\ attempts[i].level = 0

\* Eleven chunks of rms 1.0 have been processed (one more than the window
\* holds); the last one decayed and 0 was written.
C15_Witness ==
    /\ Len(fed) = 11
    /\ \A i \in DOMAIN fed : fed[i] = SCALE
    /\ Len(attempts) = 1
    /\ attempts[1].branch = "Decaying"
    /\ attempts[1].level = 0
    /\ state.current_brightness = -(11 * SCALE)

\* The run that receives the whole stream as one batch from the state main
\* builds, with the same write failing (the failIdx-th, 0: none).
OneBatch(stream, failIdx) ==
    DrainLoop([buffer |-> stream,
               state |-> InitialState,
               chunks |-> <<>>,
               attempts |-> <<>>,
               panicked |-> FALSE,
               sinceSnap |-> -1,
               fed |-> <<>>],
              failIdx)

\* C16: how the stream is cut into batches cannot be observed.  Whatever
\* the batches were (empty ones, shorter or longer than a chunk), the
\* chunks processed, the writes attempted and the state left (buffered
\* residue, window, current_brightness) are those of the run that gets the
\* same samples as a single batch; so two runs that deliver the same
\* stream, with the backlight answering alike, agree on all of them.
C16_BatchBoundaries ==
    \E ref \in {OneBatch(delivered, IF panicked THEN nwrites ELSE 0)} :
        /\ Concat(ref.chunks) = emitted
        /\ Len(ref.chunks) = nchunks
        /\ ref.attempts = log
        /\ ref.buffer = buffer
        /\ ref.state = state
        /\ ref.panicked = panicked

\* Two batches, half a chunk and then one chunk and a half of another
\* amplitude, have given two chunks, the first made of samples of both.
C16_Witness ==
    /\ nbatches = 2
    /\ Len(chunks) = 2
    /\ nchunks = 2
    /\ Len(log) = 2
    /\ chunks[1][1] # chunks[1][samples_per_chunk]
    /\ buffer = <<>>
    /\ ~panicked

\* C17: process_audio_chunk never modifies min_rms or max_rms: they keep
\* the values set before the stream starts (0.0 and 0.9) whatever chunks
\* are processed, and of the RmsState a chunk changes only the window and
\* current_brightness.
C17_RangeFrame ==
    /\ state.min_rms = 0
    /\ state.max_rms = (9 * SCALE) \div 10
    /\ state.moving_avg.size = 10
    /\ DOMAIN state = {"moving_avg", "max_rms", "min_rms", "current_brightness"}
    /\ DOMAIN state.moving_avg = {"size", "window"}

\* A chunk louder than max_rms (rms 1.0 > 0.9) has been processed by the
\* callback and changed the window and current_brightness.
C17_Witness ==
    /\ nchunks >= 1
    /\ \E i \in DOMAIN attempts : attempts[i].rms > state.max_rms
    /\ state.moving_avg.window # <<>>
    /\ state.current_brightness # 0

\* C18: for every finite batch the callback terminates, every write
\* succeeding: each iteration of the loop takes samples_per_chunk > 0
\* samples out of the buffer (the samples buffered and the chunks drained
\* add up to the samples delivered, so a call drains finitely many
\* chunks), and a call that has started returns.
C18_CallbackTerminates ==
    /\ [][Len(buffer') + nchunks' * samples_per_chunk = Len(delivered')]_vars
    /\ samples_per_chunk > 0
    /\ (pc = "loop") ~> (pc = "idle")

\* A call has returned after two iterations of the loop (a batch of one
\* chunk and a half on top of half a chunk buffered).
C18_Witness ==
    /\ pc = "idle"
    /\ nbatches = 2
    /\ Len(chunks) = 2
    /\ Len(attempts) = 2
    /\ ~LoopCond(buffer)
    /\ ~panicked

====
